---- MODULE Spec2Model ----
(***************************************************************************)
(* OVQuantizer (optimum/intel/openvino/quantization.py): one quantize call *)
(* on a constructed quantizer, followed step by step through the strategy  *)
(* it dispatches to.  An input of the call is bound at the statement that  *)
(* first reads it.                                                         *)
(***************************************************************************)
EXTENDS Integers, Sequences, FiniteSets, TLC

(* ------------------------------ bounds -------------------------------- *)
\* batches the calibration loader yields, at most
MaxBatches == 2
\* inference calls one generate call makes through model.request, at most
MaxSteps == 2
\* largest subset_size a caller passes in kwargs
MaxSubset == 3
\* applications of _remove_unused_columns followed in SpecCols
MaxFilter == 2

(* ------------------------- program constants -------------------------- *)
\* default subset size of both runtime strategies
DefaultSubsetSize == 300
\* .utils.MAX_ONNX_OPSET and .utils.MIN_ONNX_QDQ_OPSET
MAX_ONNX_OPSET == 16
MIN_ONNX_QDQ_OPSET == 13

\* nncf.ModelType.TRANSFORMER
TRANSFORMER == "TRANSFORMER"
\* .utils.OV_XML_FILE_NAME = "openvino_model.xml", .utils.ONNX_WEIGHTS_NAME = "model.onnx"
\* A file name is the sequence of its pieces; a piece starting with "." is a
\* dot-suffix, so "openvino_model.xml" is <<"openvino_model", ".xml">>.
OV_XML_FILE_NAME == <<"openvino_model", ".xml">>
ONNX_WEIGHTS_NAME == <<"model", ".onnx">>

(* ------------------------------ values -------------------------------- *)
\* Python None where a task label is expected
NoTask == "None"
\* Python None as an inference input (the default of inputs); a tensor is a
\* positive number, the k-th inference call of the run passing tensor k
NoneInput == 0
\* self.task as the constructor may leave it
Tasks == {NoTask, "text-classification", "seq2seq-lm", "text2text-generation"}
\* pipeline_tag values HfApi().model_info may return
PipelineTags == {NoTask, "text-classification", "text2text-generation"}
\* the columns of the calibration datasets, and the forward-signature parameters
ColumnNames == {"input_ids", "attention_mask", "labels", "extra_meta"}
SignatureNames == ColumnNames \cup {"token_type_ids"}

\* isinstance facts of the held model.  OVBaseDecoderModel derives from
\* OVBaseModel; use_cache is read only on a decoder model.
ModelKinds ==
    { k \in [decoder : BOOLEAN, ovbase : BOOLEAN, torch : BOOLEAN, use_cache : BOOLEAN] :
        /\ k.decoder => k.ovbase
        /\ k.use_cache => k.decoder }

\* one keyword of **kwargs: given or not, and its value when given
NotGivenStr == [given |-> FALSE, val |-> ""]
NotGivenBool == [given |-> FALSE, val |-> FALSE]
NotGivenInt == [given |-> FALSE, val |-> 0]
ModelTypeArgs == {NotGivenStr} \cup {[given |-> TRUE, val |-> v] : v \in {TRANSFORMER, "CUSTOM"}}
FastBiasArgs == {NotGivenBool} \cup {[given |-> TRUE, val |-> v] : v \in BOOLEAN}
SubsetSizeArgs == {NotGivenInt} \cup {[given |-> TRUE, val |-> v] : v \in 0..MaxSubset}

\* directories and file names; a path is the sequence of its components
Dirs == { << <<"out">> >>, << <<"out", ".xml">> >> }
NoFileName == [given |-> FALSE, name |-> <<>>]
FileNames ==
    {NoFileName} \cup
    {[given |-> TRUE, name |-> n] :
        n \in { <<"m">>, <<"m", ".xml">>, <<"m", ".onnx">>, <<"m", ".xml", ".txt">> }}
NoPath == <<>>

\* inference request objects: none yet, a compiled request, the shim around one
NoRequest == [id |-> "none", wraps |-> "none"]
RawRequest(i) == [id |-> i, wraps |-> "none"]

NoError == [type |-> "none", at |-> "none"]
NoCall == [ep |-> "none", args |-> <<>>]
NoNncfCall ==
    [called |-> FALSE, model_type |-> "", fast_bias_correction |-> FALSE,
     subset_size |-> 0, source |-> "none"]
NoExport == [called |-> FALSE, opset |-> 0, external |-> FALSE]
NoSerialize == [called |-> FALSE, xml |-> NoPath, bin |-> NoPath]
NoNames == [is_none |-> TRUE, names |-> {}]

VARIABLES
    pc,                 \* position in the quantize call
    kind,               \* runtime representation of self.model
    entered,            \* strategies entered by the quantize call
    error,              \* exception the call raised, and where
    task,               \* self.task
    input_names,        \* self.input_names
    signature_columns,  \* self._signature_columns
    graph,              \* self.model.model
    request,            \* self.model.request
    kwargs,             \* **kwargs of the call, keyword by keyword
    save_directory,     \* Path(save_directory)
    dirCreated,         \* save_directory exists
    files,              \* paths written by the call
    calibration_dataset,\* column names of the dataset passed in
    dataset,            \* column names of the dataset the loader reads
    nfiltered,          \* applications of _remove_unused_columns
    nbatches,           \* batches the calibration loader yields
    consumed,           \* batches already passed to generate
    subset_size,        \* local subset_size of _quantize_ovcausallm
    data_cache,         \* local data_cache of _quantize_ovcausallm
    held,               \* request object held before wrapping
    call,               \* inference call pending in the shim
    steps,              \* inference calls made by the running generate
    invoked,            \* calls that reached the wrapped request
    nncfCall,           \* arguments nncf.quantize was invoked with
    file_name,          \* file_name argument
    output_path,        \* output_path of _quantize_torchmodel
    save_onnx_model,    \* quantization_config.save_onnx_model
    default_opset,      \* onnx_config.DEFAULT_ONNX_OPSET
    export,             \* arguments of _onnx_export_nncf_model
    readModel,          \* core.read_model was called
    serialized          \* arguments of openvino.runtime.serialize

quantizerVars == <<kind, task, input_names, signature_columns, graph, request>>
callVars == <<kwargs, save_directory, dirCreated, files>>
colVars == <<calibration_dataset, dataset, nfiltered>>
loopVars == <<nbatches, consumed, subset_size, data_cache, held, call, steps, invoked>>
torchVars == <<file_name, output_path, save_onnx_model, default_opset, export, readModel, serialized>>
vars == <<pc, entered, error, quantizerVars, callVars, colVars, loopVars, nncfCall, torchVars>>

(* ----------------------------- helpers -------------------------------- *)
IsSuffixPiece(t) == t \in {".xml", ".bin", ".onnx", ".txt", ".json"}

\* PurePath.joinpath(name)
joinpath(dir, name) == Append(dir, name)

\* PurePath.with_suffix(suffix): the last dot-suffix of the final component is
\* replaced, or the suffix is added when the component has none
with_suffix(path, suffix) ==
    LET name == path[Len(path)]
        stem == IF Len(name) >= 2 /\ IsSuffixPiece(name[Len(name)])
                THEN SubSeq(name, 1, Len(name) - 1)
                ELSE name
    IN  [path EXCEPT ![Len(path)] = Append(stem, suffix)]

\* str.replace(old, new) on the posix string of a path: every occurrence, in
\* every component
str_replace(path, old, new) ==
    [i \in 1..Len(path) |->
        [j \in 1..Len(path[i]) |-> IF path[i][j] = old THEN new ELSE path[i][j]]]

\* dict.get(key, default)
kwargs_get(arg, default) == IF arg.given THEN arg.val ELSE default

\* the keywords nncf.quantize is given twice: once by name, once through **kwargs
DuplicateKeywords(kw) ==
    {k \in {"model_type", "fast_bias_correction", "subset_size"} : kw[k].given}

\* _TASK_ALIASES.get(task, task)
TaskAliases(t) ==
    CASE t = "seq2seq-lm" -> "text2text-generation"
      [] t = "causal-lm" -> "text-generation"
      [] t = "sequence-classification" -> "text-classification"
      [] OTHER -> t

\* use_external_data_format(num_parameters): the model is too large to inline
use_external_data_format(large) == large

\* the set difference taken the other way round
remove_unused_columns_reversed(columns, signature) ==
    LET ignored_columns == signature \ columns
    IN  columns \ ignored_columns

\* OVQuantizer._remove_unused_columns
remove_unused_columns(columns, signature) ==
    LET ignored_columns == columns \ signature
    IN  columns \ ignored_columns

(* ------------------------------ Init ---------------------------------- *)
\* the part of the state no quantize call has touched yet
Untouched ==
    /\ entered = {}
    /\ error = NoError
    /\ input_names = NoNames
    /\ graph = "fp32"
    /\ kwargs = [model_type |-> NotGivenStr, fast_bias_correction |-> NotGivenBool,
                 subset_size |-> NotGivenInt]
    /\ save_directory = NoPath
    /\ dirCreated = FALSE
    /\ files = {}
    /\ nfiltered = 0
    /\ nbatches = 0
    /\ consumed = 0
    /\ subset_size = 0
    /\ data_cache = <<>>
    /\ held = NoRequest
    /\ call = NoCall
    /\ steps = 0
    /\ invoked = 0
    /\ nncfCall = NoNncfCall
    /\ file_name = NoFileName
    /\ output_path = NoPath
    /\ save_onnx_model = FALSE
    /\ default_opset = 0
    /\ export = NoExport
    /\ readModel = FALSE
    /\ serialized = NoSerialize

\* OVQuantizer.__init__
Init ==
    /\ pc = "idle"
    /\ kind \in ModelKinds
    /\ task \in Tasks
    /\ signature_columns = {"input_ids", "attention_mask", "labels"}
    /\ request \in {NoRequest, RawRequest("req0")}
    /\ calibration_dataset = {}
    /\ dataset = {}
    /\ Untouched

(* --------------------------- quantize --------------------------------- *)
Raise(type, at) ==
    /\ error' = [type |-> type, at |-> at]
    /\ pc' = "raised"

\* the isinstance chain with the OVBaseModel test ahead of the decoder test
SelectStrategyBaseFirst(k) ==
    IF k.ovbase THEN "ovbasemodel"
    ELSE IF k.decoder /\ k.use_cache THEN "ovcausallm"
    ELSE IF k.torch THEN "torchmodel"
    ELSE "unsupported"

\* the isinstance chain of quantize
SelectStrategy(k) ==
    IF k.decoder /\ k.use_cache THEN "ovcausallm"
    ELSE IF k.ovbase THEN "ovbasemodel"
    ELSE IF k.torch THEN "torchmodel"
    ELSE "unsupported"

\* quantize creating save_directory ahead of the isinstance chain
QuantizeMkdirFirst ==
    /\ pc = "idle"
    /\ \E dir \in Dirs :
        /\ save_directory' = dir
        /\ dirCreated' = TRUE
    /\ LET s == SelectStrategy(kind)
       IN  IF s = "unsupported"
           THEN /\ error' = [type |-> "TypeError", at |-> "quantize"]
                /\ pc' = "raised"
                /\ UNCHANGED entered
           ELSE /\ pc' = s
                /\ entered' = entered \cup {s}
                /\ UNCHANGED error
    /\ UNCHANGED <<quantizerVars, kwargs, files, colVars, loopVars, nncfCall, torchVars>>

\* OVQuantizer.quantize: one strategy is called, or TypeError is raised
Quantize ==
    /\ pc = "idle"
    /\ LET s == SelectStrategy(kind)
       IN  IF s = "unsupported"
           THEN /\ Raise("TypeError", "quantize")
                /\ UNCHANGED entered
           ELSE /\ pc' = s
                /\ entered' = entered \cup {s}
                /\ UNCHANGED error
    /\ UNCHANGED <<quantizerVars, callVars, colVars, loopVars, nncfCall, torchVars>>

\* the calibration dataset of a call
Datasets == { ColumnNames }

\* OVQuantizer._get_calibration_dataloader: the columns the loader reads, and
\* self.input_names
GetCalibrationDataloader(ds, remove_unused) ==
    /\ calibration_dataset' = ds
    /\ dataset' = IF remove_unused THEN remove_unused_columns(ds, signature_columns) ELSE ds
    /\ nfiltered' = IF remove_unused THEN nfiltered + 1 ELSE nfiltered
    /\ input_names' = [is_none |-> FALSE, names |-> dataset']

\* save_directory = Path(save_directory); save_directory.mkdir(parents=True, exist_ok=True)
Mkdir(dir) ==
    /\ save_directory' = dir
    /\ dirCreated' = TRUE

(* ------------------ autoregressive-decoder strategy ------------------- *)
\* OVBaseModel.compile(): a request is created only when there is none
Compile(r) == IF r = NoRequest THEN RawRequest("req1") ELSE r

\* InferRequestWrapper(request)
InferRequestWrapper(r) == [id |-> "shim", wraps |-> r.id]

IsShim(r) == r.id = "shim"

\* _quantize_ovcausallm up to the wrapping of the request
CausalPrepare ==
    /\ pc = "ovcausallm"
    /\ \E dir \in Dirs, ds \in Datasets, ruc \in BOOLEAN, n \in 0..MaxBatches,
          ss \in SubsetSizeArgs :
        /\ Mkdir(dir)
        /\ GetCalibrationDataloader(ds, ruc)
        /\ nbatches' = n
        /\ kwargs' = [kwargs EXCEPT !.subset_size = ss]
        /\ subset_size' = kwargs_get(ss, DefaultSubsetSize)
    /\ consumed' = 0
    /\ data_cache' = <<>>
    /\ held' = Compile(request)
    /\ request' = InferRequestWrapper(Compile(request))
    /\ pc' = "loop"
    /\ UNCHANGED <<entered, error, kind, task, signature_columns, graph, files,
                   call, steps, invoked, nncfCall, torchVars>>

\* for _, data in enumerate(calibration_dataloader): the next batch, or the end
LoopNext ==
    /\ pc = "loop"
    /\ IF consumed < nbatches
       THEN /\ consumed' = consumed + 1
            /\ steps' = 0
            /\ pc' = "generate"
       ELSE /\ pc' = "restore"
            /\ UNCHANGED <<consumed, steps>>
    /\ UNCHANGED <<entered, error, quantizerVars, callVars, colVars, nbatches,
                   subset_size, data_cache, held, call, invoked, nncfCall, torchVars>>

\* the positional arguments of an inference call: none, the input tensor, or
\* the input tensor and a second argument
CallArgs(tensor) == { <<>>, <<tensor>>, <<tensor, NoneInput>> }

\* self.model.generate(**data, max_new_tokens=100) makes one more inference
\* call through self.model.request
GenerateCall ==
    /\ pc = "generate"
    /\ steps < MaxSteps
    /\ \E ep \in {"__call__", "infer", "start_async"},
          args \in CallArgs(Len(data_cache) + 1) :
        call' = [ep |-> ep, args |-> args]
    /\ pc' = "shim"
    /\ UNCHANGED <<entered, error, quantizerVars, callVars, colVars, nbatches,
                   consumed, subset_size, data_cache, held, steps, invoked,
                   nncfCall, torchVars>>

\* the first statement of InferRequestWrapper.__call__, infer and start_async:
\* data_cache.append(*args) takes exactly one argument; inputs defaults to None
ShimCapture ==
    /\ pc = "shim"
    /\ IF call.ep = "__call__"
       THEN IF Len(call.args) = 1
            THEN /\ data_cache' = Append(data_cache, call.args[1])
                 /\ pc' = "delegate"
                 /\ UNCHANGED error
            ELSE /\ Raise("TypeError", "InferRequestWrapper.__call__")
                 /\ UNCHANGED data_cache
       ELSE /\ data_cache' = Append(data_cache,
                                IF Len(call.args) >= 1 THEN call.args[1] ELSE NoneInput)
            /\ pc' = "delegate"
            /\ UNCHANGED error
    /\ UNCHANGED <<entered, quantizerVars, callVars, colVars, nbatches, consumed,
                   subset_size, held, call, steps, invoked, nncfCall, torchVars>>

\* the second statement of the three entry points: the wrapped request runs
ShimDelegate ==
    /\ pc = "delegate"
    /\ invoked' = invoked + 1
    /\ steps' = steps + 1
    /\ call' = NoCall
    /\ pc' = "generate"
    /\ UNCHANGED <<entered, error, quantizerVars, callVars, colVars, nbatches,
                   consumed, subset_size, data_cache, held, nncfCall, torchVars>>

\* the break test with > in place of >=
StopCaptureStrict(cache, size) == Len(cache) > size

\* the break test one entry early
StopCaptureOneEarly(cache, size) == Len(cache) + 1 >= size

\* if len(data_cache) >= subset_size: break
StopCapture(cache, size) == Len(cache) >= size

\* generate returns, and the loop breaks or goes on
GenerateReturn ==
    /\ pc = "generate"
    /\ pc' = IF StopCapture(data_cache, subset_size) THEN "restore" ELSE "loop"
    /\ UNCHANGED <<entered, error, quantizerVars, callVars, colVars, loopVars,
                   nncfCall, torchVars>>

\* the shim itself in place of the request it wraps
WrappedRequestIsShim(r) == r

\* self.model.request.request of the shim
WrappedRequest(r) == RawRequest(r.wraps)

\* self.model.request = self.model.request.request
Restore ==
    /\ pc = "restore"
    /\ request' = WrappedRequest(request)
    /\ pc' = "causal_nncf"
    /\ UNCHANGED <<entered, error, kind, task, input_names, signature_columns, graph,
                   callVars, colVars, loopVars, nncfCall, torchVars>>

\* kwargs.get(key) is truthy: the keyword is given and its value is not
\* "", 0 or False
TruthyStr(arg) == arg.given /\ arg.val # ""
TruthyInt(arg) == arg.given /\ arg.val # 0
TruthyBool(arg) == arg.given /\ arg.val

\* nncf.quantize(model, dataset, model_type=.., fast_bias_correction=..,
\* subset_size=.., **kwargs): a keyword given by name and again through
\* **kwargs is a TypeError at the call; otherwise the routine runs
NncfQuantize(kw, model_type, fast_bias_correction, size, source) ==
    IF DuplicateKeywords(kw) # {}
    THEN /\ Raise("TypeError", "nncf.quantize")
         /\ UNCHANGED <<nncfCall, graph>>
    ELSE /\ nncfCall' = [called |-> TRUE, model_type |-> model_type,
                         fast_bias_correction |-> fast_bias_correction,
                         subset_size |-> size, source |-> source]
         /\ graph' = "quantized"
         /\ UNCHANGED error

\* _quantize_ovcausallm: nncf.Dataset(data_cache, ...) and nncf.quantize
CausalQuantize ==
    /\ pc = "causal_nncf"
    /\ \E mt \in ModelTypeArgs, fb \in FastBiasArgs :
        LET kw == [kwargs EXCEPT !.model_type = mt, !.fast_bias_correction = fb]
        IN  /\ kwargs' = kw
            /\ NncfQuantize(kw,
                   IF ~TruthyStr(kw.model_type) THEN TRANSFORMER ELSE kw.model_type.val,
                   IF ~TruthyBool(kw.fast_bias_correction) THEN TRUE
                   ELSE kw.fast_bias_correction.val,
                   subset_size,
                   "data_cache")
            /\ pc' = IF DuplicateKeywords(kw) # {} THEN "raised" ELSE "causal_save"
    /\ UNCHANGED <<entered, kind, task, input_names, signature_columns, request,
                   save_directory, dirCreated, files, colVars, loopVars, torchVars>>

\* OVBaseModel.save_pretrained(save_directory)
SavePretrained(dir) == files' = files \cup {joinpath(dir, OV_XML_FILE_NAME)}

\* _quantize_ovcausallm: self.model.save_pretrained(save_directory)
CausalSave ==
    /\ pc = "causal_save"
    /\ SavePretrained(save_directory)
    /\ pc' = "done"
    /\ UNCHANGED <<entered, error, quantizerVars, kwargs, save_directory, dirCreated,
                   colVars, loopVars, nncfCall, torchVars>>

(* ----------------------- runtime-graph strategy ----------------------- *)
\* _quantize_ovbasemodel up to the calibration loader
BasePrepare ==
    /\ pc = "ovbasemodel"
    /\ \E dir \in Dirs, ds \in Datasets, ruc \in BOOLEAN, n \in 0..MaxBatches :
        /\ Mkdir(dir)
        /\ GetCalibrationDataloader(ds, ruc)
        /\ nbatches' = n
    /\ pc' = "base_nncf"
    /\ UNCHANGED <<entered, error, kind, task, signature_columns, graph, request,
                   kwargs, files, consumed, subset_size, data_cache, held, call,
                   steps, invoked, nncfCall, torchVars>>

\* _quantize_ovbasemodel: nncf.Dataset(calibration_dataloader, ...) and nncf.quantize
BaseQuantize ==
    /\ pc = "base_nncf"
    /\ \E mt \in ModelTypeArgs, fb \in FastBiasArgs, ss \in SubsetSizeArgs :
        LET kw == [model_type |-> mt, fast_bias_correction |-> fb, subset_size |-> ss]
        IN  /\ kwargs' = kw
            /\ NncfQuantize(kw,
                   IF ~TruthyStr(kw.model_type) THEN TRANSFORMER ELSE kw.model_type.val,
                   kwargs_get(kw.fast_bias_correction, TRUE),
                   IF ~TruthyInt(kw.subset_size) THEN DefaultSubsetSize
                   ELSE kw.subset_size.val,
                   "calibration_dataloader")
            /\ pc' = IF DuplicateKeywords(kw) # {} THEN "raised" ELSE "base_save"
    /\ UNCHANGED <<entered, kind, task, input_names, signature_columns, request,
                   save_directory, dirCreated, files, colVars, loopVars, torchVars>>

\* _quantize_ovbasemodel: self.model.save_pretrained(save_directory)
BaseSave ==
    /\ pc = "base_save"
    /\ SavePretrained(save_directory)
    /\ pc' = "done"
    /\ UNCHANGED <<entered, error, quantizerVars, kwargs, save_directory, dirCreated,
                   colVars, loopVars, nncfCall, torchVars>>

(* ----------------------- generic-model strategy ----------------------- *)
\* DEFAULT_ONNX_OPSET of the export configs
DefaultOpsets == {11, 14, 18}

\* output_path = save_directory.joinpath(file_name).with_suffix(".xml").as_posix()
OutputPath(dir, fn) ==
    with_suffix(joinpath(dir, IF fn.given THEN fn.name ELSE OV_XML_FILE_NAME), ".xml")

\* _quantize_torchmodel saving the model configuration ahead of _set_task
TorchPrepareSavesConfig ==
    /\ pc = "torchmodel"
    /\ \E dir \in Dirs, fn \in FileNames, ds \in Datasets, ruc \in BOOLEAN,
          n \in 0..MaxBatches, som \in BOOLEAN :
        /\ Mkdir(dir)
        /\ file_name' = fn
        /\ output_path' = OutputPath(dir, fn)
        /\ GetCalibrationDataloader(ds, ruc)
        /\ nbatches' = n
        /\ save_onnx_model' = som
        /\ IF n = 0
           THEN /\ Raise("StopIteration", "_quantize_torchmodel")
                /\ UNCHANGED files
           ELSE /\ pc' = "set_task"
                /\ files' = files \cup {joinpath(dir, <<"config", ".json">>)}
                /\ UNCHANGED error
    /\ UNCHANGED <<entered, kind, task, signature_columns, graph, request, kwargs,
                   consumed, subset_size, data_cache, held, call, steps,
                   invoked, nncfCall, default_opset, export, readModel, serialized>>

\* _quantize_torchmodel up to controller.prepare_for_export(): next(iter(..))
\* of a loader without batches raises StopIteration
TorchPrepare ==
    /\ pc = "torchmodel"
    /\ \E dir \in Dirs, fn \in FileNames, ds \in Datasets, ruc \in BOOLEAN,
          n \in 0..MaxBatches, som \in BOOLEAN :
        /\ Mkdir(dir)
        /\ file_name' = fn
        /\ output_path' = OutputPath(dir, fn)
        /\ GetCalibrationDataloader(ds, ruc)
        /\ nbatches' = n
        /\ save_onnx_model' = som
        /\ IF n = 0
           THEN Raise("StopIteration", "_quantize_torchmodel")
           ELSE /\ pc' = "set_task"
                /\ UNCHANGED error
    /\ UNCHANGED <<entered, kind, task, signature_columns, graph, request, kwargs,
                   files, consumed, subset_size, data_cache, held, call, steps,
                   invoked, nncfCall, default_opset, export, readModel, serialized>>

\* OVQuantizer._set_task
SetTask ==
    /\ pc = "set_task"
    /\ \E pipeline_tag \in PipelineTags :
        LET looked == IF task = NoTask THEN pipeline_tag ELSE task
        IN  IF looked = NoTask
            THEN /\ task' = NoTask
                 /\ Raise("ValueError", "_set_task")
            ELSE /\ task' = TaskAliases(looked)
                 /\ IF TaskAliases(looked) = "text2text-generation"
                    THEN Raise("ValueError", "_set_task")
                    ELSE /\ pc' = "save_config"
                         /\ UNCHANGED error
    /\ UNCHANGED <<entered, kind, input_names, signature_columns, graph, request,
                   callVars, colVars, loopVars, nncfCall, torchVars>>

\* self.model.config.save_pretrained(save_directory) and the export config
SaveConfig ==
    /\ pc = "save_config"
    /\ files' = files \cup {joinpath(save_directory, <<"config", ".json">>)}
    /\ default_opset' \in DefaultOpsets
    /\ pc' = "export"
    /\ UNCHANGED <<entered, error, quantizerVars, kwargs, save_directory, dirCreated,
                   colVars, loopVars, nncfCall, file_name, output_path,
                   save_onnx_model, export, readModel, serialized>>

Min(a, b) == IF a <= b THEN a ELSE b
Max(a, b) == IF a >= b THEN a ELSE b

\* the opset without the MAX_ONNX_OPSET cap
ExportOpsetUncapped(default, som) ==
    IF ~som THEN default ELSE Max(default, MIN_ONNX_QDQ_OPSET)

\* opset = min(DEFAULT_ONNX_OPSET, MAX_ONNX_OPSET), raised to MIN_ONNX_QDQ_OPSET
\* when quantization_config.save_onnx_model
ExportOpset(default, som) ==
    LET opset == Min(default, MAX_ONNX_OPSET)
    IN  IF ~som THEN opset ELSE Max(opset, MIN_ONNX_QDQ_OPSET)

\* save_as_external_data = use_external_data_format(num_parameters) or save_onnx_model
SaveAsExternalData(large, som) == use_external_data_format(large) \/ som

\* the export of the compressed model: to save_directory / ONNX_WEIGHTS_NAME,
\* or to an io.BytesIO
Export ==
    /\ pc = "export"
    /\ \E large \in BOOLEAN :
        LET external == SaveAsExternalData(large, save_onnx_model)
        IN  /\ export' = [called |-> TRUE,
                          opset |-> ExportOpset(default_opset, save_onnx_model),
                          external |-> external]
            /\ files' = IF external
                        THEN files \cup {joinpath(save_directory, ONNX_WEIGHTS_NAME)}
                        ELSE files
    /\ pc' = "read"
    /\ UNCHANGED <<entered, error, quantizerVars, kwargs, save_directory, dirCreated,
                   colVars, loopVars, nncfCall, file_name, output_path,
                   save_onnx_model, default_opset, readModel, serialized>>

\* OVQuantizer._save_pretrained: serialize(model, output_path, output_path.replace(".xml", ".bin"))
BinPath(xml) == str_replace(xml, ".xml", ".bin")

\* core.read_model, self._save_pretrained and quantization_config.save_pretrained
ReadAndSave ==
    /\ pc = "read"
    /\ readModel' = TRUE
    /\ serialized' = [called |-> TRUE, xml |-> output_path, bin |-> BinPath(output_path)]
    /\ files' = files \cup {output_path, BinPath(output_path),
                            joinpath(save_directory, <<"openvino_config", ".json">>)}
    /\ pc' = "done"
    /\ UNCHANGED <<entered, error, quantizerVars, kwargs, save_directory, dirCreated,
                   colVars, loopVars, nncfCall, file_name, output_path,
                   save_onnx_model, default_opset, export>>

Next ==
    \/ Quantize
    \/ CausalPrepare
    \/ LoopNext
    \/ GenerateCall
    \/ ShimCapture
    \/ ShimDelegate
    \/ GenerateReturn
    \/ Restore
    \/ CausalQuantize
    \/ CausalSave
    \/ BasePrepare
    \/ BaseQuantize
    \/ BaseSave
    \/ TorchPrepare
    \/ SetTask
    \/ SaveConfig
    \/ Export
    \/ ReadAndSave

Spec == Init /\ [][Next]_vars

(* -------------------------- column filtering -------------------------- *)
\* a quantizer over any forward signature, given any dataset
InitCols ==
    /\ pc = "columns"
    /\ kind \in {k \in ModelKinds : k.torch /\ ~k.ovbase}
    /\ task = NoTask
    /\ signature_columns \in SUBSET SignatureNames
    /\ request = NoRequest
    /\ calibration_dataset \in SUBSET ColumnNames
    /\ dataset = calibration_dataset
    /\ Untouched

\* dataset = self._remove_unused_columns(dataset)
RemoveUnusedColumns ==
    /\ pc = "columns"
    /\ nfiltered < MaxFilter
    /\ dataset' = remove_unused_columns(dataset, signature_columns)
    /\ nfiltered' = nfiltered + 1
    /\ UNCHANGED <<pc, entered, error, quantizerVars, callVars, calibration_dataset,
                   loopVars, nncfCall, torchVars>>

NextCols == RemoveUnusedColumns

SpecCols == InitCols /\ [][NextCols]_vars

(* ------------------------------ claims -------------------------------- *)
Supported(k) == k.decoder \/ k.ovbase \/ k.torch

ExpectedStrategies(k) ==
    IF k.decoder /\ k.use_cache THEN {"ovcausallm"}
    ELSE IF k.ovbase THEN {"ovbasemodel"}
    ELSE IF k.torch THEN {"torchmodel"}
    ELSE {}

\* C1: a quantize call enters at most one of the three strategies, exactly one
\* when the model is a decoder model, a runtime-graph model or a torch module,
\* and the strategy is fixed by the model's representation: decoder model with
\* use_cache -> decoder strategy, any other runtime-graph model -> runtime-graph
\* strategy, otherwise torch module -> generic strategy.
C1_OneStrategy ==
    /\ Cardinality(entered) <= 1
    /\ pc # "idle" => entered = ExpectedStrategies(kind)
    /\ (pc # "idle" /\ Supported(kind)) => Cardinality(entered) = 1

\* a decoder model without use_cache that is also a torch module has gone
\* through the runtime-graph strategy
C1_Witness ==
    /\ pc = "done"
    /\ kind.decoder /\ ~kind.use_cache /\ kind.torch
    /\ entered = {"ovbasemodel"}

\* C2: with a model of none of the three representations quantize raises
\* TypeError and changes nothing: no strategy is entered, save_directory is
\* not created, no file is written, and the model, task and input_names of
\* the quantizer stay as they were.
C2_UnsupportedNoSideEffects ==
    /\ []((pc # "idle" /\ ~Supported(kind)) =>
            /\ pc = "raised"
            /\ error = [type |-> "TypeError", at |-> "quantize"]
            /\ entered = {}
            /\ ~dirCreated
            /\ files = {})
    /\ [][~Supported(kind) =>
            /\ task' = task
            /\ input_names' = input_names
            /\ graph' = graph
            /\ request' = request
            /\ kind' = kind]_vars

C2_Witness ==
    /\ pc = "raised"
    /\ error = [type |-> "TypeError", at |-> "quantize"]
    /\ ~Supported(kind)
    /\ task = "text-classification"

\* the capture loop of the decoder strategy has been left by exhaustion or break
LoopEnded ==
    /\ "ovcausallm" \in entered
    /\ \/ pc \in {"restore", "causal_nncf", "causal_save", "done"}
       \/ pc = "raised" /\ error.at = "nncf.quantize"

\* C3: when the capture loop of the decoder strategy stops calling generate,
\* the capture cache holds at least subset_size entries or every batch of the
\* calibration loader has been passed to generate.
C3_StopsOnlyWhenFullOrExhausted ==
    LoopEnded => Len(data_cache) >= subset_size \/ consumed = nbatches

\* the loop broke on a full cache with batches left over
C3_Witness ==
    /\ pc = "restore"
    /\ subset_size >= 2
    /\ Len(data_cache) >= subset_size
    /\ consumed < nbatches

FirstInput(c) == IF Len(c.args) >= 1 THEN c.args[1] ELSE NoneInput

\* C5: every call through the shim's call operator, infer or start_async, with
\* any arguments, appends the call's first positional input as one new last
\* entry of the capture cache, and no entry is ever removed, replaced or
\* reordered.
C5_EveryCallCaptured ==
    /\ [][pc = "shim" => data_cache' = Append(data_cache, FirstInput(call))]_vars
    /\ [][/\ Len(data_cache') >= Len(data_cache)
          /\ SubSeq(data_cache', 1, Len(data_cache)) = data_cache]_vars

\* the decoder or the runtime-graph strategy has reached its nncf.quantize call
NncfCallMade ==
    \/ pc \in {"causal_save", "base_save"}
    \/ pc = "done" /\ entered \cap {"ovcausallm", "ovbasemodel"} # {}
    \/ pc = "raised" /\ error.at = "nncf.quantize"

\* C6: in the runtime-graph and decoder strategies nncf.quantize is invoked
\* with model type, fast-bias-correction flag and subset size each being the
\* caller's keyword when one is supplied and otherwise the default
\* (TRANSFORMER, True, 300).
C6_KeywordsReachRoutine ==
    NncfCallMade =>
        /\ nncfCall.called
        /\ nncfCall.model_type = kwargs_get(kwargs.model_type, TRANSFORMER)
        /\ nncfCall.fast_bias_correction = kwargs_get(kwargs.fast_bias_correction, TRUE)
        /\ nncfCall.subset_size = kwargs_get(kwargs.subset_size, DefaultSubsetSize)

ConfigFile == joinpath(save_directory, <<"config", ".json">>)

\* C7: in the generic strategy, a task that is unset with an empty metadata
\* lookup, or that is "text2text-generation" after alias mapping, makes
\* quantize raise ValueError before any export work: the model configuration
\* is not saved, the export is not called, the runtime has read and
\* serialized nothing.
C7_TaskErrorBeforeExport ==
    /\ (pc = "raised" /\ error.at = "_set_task") =>
         /\ error.type = "ValueError"
         /\ ConfigFile \notin files
         /\ ~export.called
         /\ ~readModel
         /\ ~serialized.called
    /\ ("torchmodel" \in entered /\ pc \in {"save_config", "export", "read", "done"}) =>
         task \notin {NoTask, "text2text-generation"}
    /\ (ConfigFile \in files \/ export.called \/ readModel \/ serialized.called) =>
         pc \in {"export", "read", "done"}

\* the metadata lookup returned the sequence-to-sequence task
C7_Witness ==
    /\ pc = "raised"
    /\ error = [type |-> "ValueError", at |-> "_set_task"]
    /\ task = "text2text-generation"
    /\ dirCreated

Parent(path) == SubSeq(path, 1, Len(path) - 1)
Name(path) == path[Len(path)]
Stem(name) == SubSeq(name, 1, Len(name) - 1)

\* C8: in the generic strategy the graph definition and the weight blob are a
\* matched pair inside save_directory: both have save_directory as parent and
\* the same base name, one ending in .xml and the other in .bin.
C8_MatchedPair ==
    serialized.called =>
        /\ Parent(serialized.xml) = save_directory
        /\ Parent(serialized.bin) = save_directory
        /\ Name(serialized.xml)[Len(Name(serialized.xml))] = ".xml"
        /\ Name(serialized.bin)[Len(Name(serialized.bin))] = ".bin"
        /\ Stem(Name(serialized.xml)) = Stem(Name(serialized.bin))

Capped == IF default_opset <= MAX_ONNX_OPSET THEN default_opset ELSE MAX_ONNX_OPSET
Raised == IF Capped >= MIN_ONNX_QDQ_OPSET THEN Capped ELSE MIN_ONNX_QDQ_OPSET

\* C9 as stated: the exported opset is min(default opset, MAX_ONNX_OPSET),
\* raised to at least MIN_ONNX_QDQ_OPSET whenever the export target is the
\* on-disk weights file.
C9_RaisedWhenExternal ==
    export.called => export.opset = IF export.external THEN Raised ELSE Capped

\* C9: the exported opset is min(default opset, MAX_ONNX_OPSET), raised to at
\* least MIN_ONNX_QDQ_OPSET exactly when the quantization config requests the
\* on-disk ONNX model, which also makes the export target the on-disk file; an
\* export that is on disk because of the parameter count alone keeps the
\* capped opset.
C9_RaisedWhenRequested ==
    export.called =>
        /\ export.opset = IF save_onnx_model THEN Raised ELSE Capped
        /\ save_onnx_model => export.external

\* an on-disk ONNX model was requested and the opset was raised
C9_Witness ==
    /\ export.called
    /\ save_onnx_model
    /\ default_opset < MIN_ONNX_QDQ_OPSET
    /\ export.opset = MIN_ONNX_QDQ_OPSET
    /\ export.external

\* C10: _remove_unused_columns leaves exactly the dataset's columns that are
\* forward-signature parameters, and filtering a filtered dataset removes
\* nothing.
C10_ColumnFilter ==
    nfiltered >= 1 =>
        /\ dataset = calibration_dataset \cap signature_columns
        /\ remove_unused_columns(dataset, signature_columns) = dataset

\* the scenario of the four columns, filtered twice
C10_Witness ==
    /\ nfiltered = 2
    /\ calibration_dataset = {"input_ids", "attention_mask", "labels", "extra_meta"}
    /\ signature_columns = {"input_ids", "attention_mask"}
    /\ dataset = {"input_ids", "attention_mask"}

\* C11: for subset_size >= 1, generate is started on a batch only while the
\* capture cache holds fewer than subset_size entries, so when the loop has
\* ended the cache exceeds subset_size by less than the number of entries the
\* last generate call captured; the cache is not truncated: it still holds
\* every captured entry.
C11_OvershootWithinLastGenerate ==
    /\ (pc \in {"generate", "shim", "delegate"} /\ subset_size >= 1) =>
         Len(data_cache) - steps - (IF pc = "delegate" THEN 1 ELSE 0) < subset_size
    /\ (LoopEnded /\ subset_size >= 1) =>
         /\ Len(data_cache) - subset_size < steps
         /\ Len(data_cache) = invoked

\* the last generate call took the cache past subset_size, and it stayed so
C11_Witness ==
    /\ pc = "causal_nncf"
    /\ subset_size >= 1
    /\ consumed = 2
    /\ Len(data_cache) > subset_size
    /\ steps >= 2

====
